---- MODULE Spec2Model ----
(***************************************************************************)
(* A model of pyBCS/scanpy2bcs.py: the reconciliation of the raw and the   *)
(* normalized expression matrices (DataObject.sync_data), the writing of   *)
(* the matrix container, the metadata encoder (DataObject.write_metadata)  *)
(* and the projection writer (DataObject.write_dimred_to_file).            *)
(*                                                                         *)
(* Sparse matrices are modelled as scipy stores them: a format tag, a      *)
(* shape, and the three arrays data / indices / indptr.  indptr keeps the  *)
(* 0-based offsets of the code; sequences are 1-based as in TLA+.          *)
(***************************************************************************)
EXTENDS Integers, Sequences, FiniteSets, TLC

(* ------------------------------ bounds -------------------------------- *)
MaxCells == 2
MaxFeatures == 2
MaxNnz == 2
MaxCats == 3
MaxMetaCells == 4
MaxProj == 2
MaxDims == 5
MaxSubs == 2
MaxIds == 2

\* The most coordinates of a projection that are written.
MaxDimredDims == 3


(* --------------------------- small helpers ----------------------------- *)
RECURSIVE SumSeq(_)
SumSeq(s) == IF s = <<>> THEN 0 ELSE Head(s) + SumSeq(Tail(s))

RECURSIVE ProdSucc(_)
\* The product of (v + 1) over a sequence: log2 of it is sum(log2(v + 1)).
ProdSucc(s) == IF s = <<>> THEN 1 ELSE (Head(s) + 1) * ProdSucc(Tail(s))

RECURSIVE Flatten(_)
Flatten(ss) == IF ss = <<>> THEN <<>> ELSE Head(ss) \o Flatten(Tail(ss))

\* Python's s[l:r] on a sequence (0-based, half open, clipped to the length).
PySlice(s, l, r) ==
    LET hi == IF r < Len(s) THEN r ELSE Len(s)
    IN  IF l >= hi THEN <<>> ELSE SubSeq(s, l + 1, hi)

None == [fmt |-> "none"]

(* ---------------------- scipy.sparse matrices -------------------------- *)
NRows(M) == M.shape[1]
NCols(M) == M.shape[2]
\* Number of compressed lines: rows of a csr matrix, columns of a csc one.
NMajor(M) == IF M.fmt = "csr" THEN NRows(M) ELSE NCols(M)

\* The line (1-based) that stored position p (1-based) belongs to.
MajorOf(M, p) ==
    CHOOSE k \in 1..NMajor(M) : M.indptr[k] < p /\ p <= M.indptr[k + 1]

RowOf(M, p) == IF M.fmt = "csr" THEN MajorOf(M, p) ELSE M.indices[p] + 1
ColOf(M, p) == IF M.fmt = "csr" THEN M.indices[p] + 1 ELSE MajorOf(M, p)

\* The dense value at (i, j): the sum of the stored entries of that place.
At(M, i, j) ==
    LET ps == {p \in 1..Len(M.data) : RowOf(M, p) = i /\ ColOf(M, p) = j}
    IN  IF ps = {} THEN 0 ELSE M.data[CHOOSE p \in ps : TRUE]

Dense(M) == [i \in 1..NRows(M) |-> [j \in 1..NCols(M) |-> At(M, i, j)]]

\* The stored positions of M whose row (csr target) or column (csc target)
\* is k, in storage order.
RECURSIVE PositionsOf(_, _, _, _)
PositionsOf(M, target, k, p) ==
    IF p > Len(M.data) THEN <<>>
    ELSE (IF (IF target = "csr" THEN RowOf(M, p) ELSE ColOf(M, p)) = k
          THEN <<p>> ELSE <<>>) \o PositionsOf(M, target, k, p + 1)

\* scipy's csr <-> csc conversion: the stored entries regrouped by the other
\* axis, each line keeping the storage order of the source.
Convert(M, target) ==
    LET n     == IF target = "csr" THEN NRows(M) ELSE NCols(M)
        lines == [k \in 1..n |-> PositionsOf(M, target, k, 1)]
        order == Flatten(lines)
        ptr[k \in 0..n] == IF k = 0 THEN 0 ELSE ptr[k - 1] + Len(lines[k])
    IN  [fmt     |-> target,
         shape   |-> M.shape,
         data    |-> [q \in 1..Len(order) |-> M.data[order[q]]],
         indices |-> [q \in 1..Len(order) |->
                        (IF target = "csr" THEN ColOf(M, order[q])
                                           ELSE RowOf(M, order[q])) - 1],
         indptr  |-> [k \in 1..(n + 1) |-> ptr[k - 1]]]

tocsr(M) == IF M.fmt = "csr" THEN M ELSE Convert(M, "csr")
tocsc(M) == IF M.fmt = "csc" THEN M ELSE Convert(M, "csc")

(* --------------------------- the provider ------------------------------ *)
\* The stored minor indices (1-based, ascending) of line k of a dense matrix.
RECURSIVE LineEntries(_, _, _, _, _)
LineEntries(D, fmt, k, m, j) ==
    IF j > m THEN <<>>
    ELSE (IF (IF fmt = "csr" THEN D[k][j] ELSE D[j][k]) # 0
          THEN <<j>> ELSE <<>>) \o LineEntries(D, fmt, k, m, j + 1)

\* The sparse matrix of format fmt that stores the nonzero entries of D
\* (scipy.sparse.csr_matrix / csc_matrix of a dense array).
FromDense(D, fmt, r, c) ==
    LET n     == IF fmt = "csr" THEN r ELSE c
        m     == IF fmt = "csr" THEN c ELSE r
        lines == [k \in 1..n |-> LineEntries(D, fmt, k, m, 1)]
        ptr[k \in 0..n] == IF k = 0 THEN 0 ELSE ptr[k - 1] + Len(lines[k])
        major == Flatten([k \in 1..n |-> [q \in 1..Len(lines[k]) |-> k]])
        minor == Flatten(lines)
    IN  [fmt     |-> fmt,
         shape   |-> <<r, c>>,
         data    |-> [q \in 1..Len(minor) |->
                        IF fmt = "csr" THEN D[major[q]][minor[q]]
                                       ELSE D[minor[q]][major[q]]],
         indices |-> [q \in 1..Len(minor) |-> minor[q] - 1],
         indptr  |-> [k \in 1..(n + 1) |-> ptr[k - 1]]]

\* The dense r x c matrix whose nonzero places are S; the entry of place
\* (i, j) is base plus the place's rank, so that all entries differ.
Pattern(S, base, r, c) ==
    [i \in 1..r |-> [j \in 1..c |->
        IF <<i, j>> \in S THEN base + (i - 1) * c + j ELSE 0]]

\* Every matrix a source can hold within the bounds, in format fmt.
Matrices(fmt, base) ==
    UNION { { FromDense(Pattern(S, base, rc[1], rc[2]), fmt, rc[1], rc[2]) :
                S \in {T \in SUBSET ((1..rc[1]) \X (1..rc[2])) :
                          Cardinality(T) <= MaxNnz} } :
            rc \in (1..MaxCells) \X (1..MaxFeatures) }

\* Barcode and feature names of one side ("norm" or "raw") of the source.
Names(side, n) == [i \in 1..n |-> <<side, i>>]

\* DataObject.get_normalized_matrix / get_barcodes / get_features: a csc
\* matrix with its names ("ok"; a normalized entry is its place's rank), or a
\* getter that raises ("error": SpringData.get_normalized_matrix on a file
\* of an unsupported sparse format).
NormalizedSources ==
    { [kind |-> "ok", M |-> M, barcodes |-> Names("norm", NRows(M)),
       features |-> Names("norm", NCols(M))] : M \in Matrices("csc", 0) }
    \cup { [kind |-> "error", M |-> None, barcodes |-> None, features |-> None] }

\* A stored csr matrix whose index pointer does not fit its shape: 2 rows,
\* but an indptr of 2 entries instead of 3.
MalformedMatrix ==
    [fmt |-> "csr", shape |-> <<2, 2>>, data |-> <<1>>, indices |-> <<0>>,
     indptr |-> <<0, 1>>]

\* DataObject.get_raw_matrix / get_raw_barcodes / get_raw_features: a csr
\* matrix with its names ("ok"; a raw count is its place's rank plus one),
\* nothing at all ("none": the three getters
\* return None, as SpringData's do), a getter that raises ("error"), or a
\* stored matrix that is malformed ("malformed": building it raises in
\* ScanpyData.get_raw_matrix, whose except clause then reads the layer
\* raw_key, and that read raises when the file has no such layer).
RawSources ==
    { [kind |-> "ok", M |-> M, barcodes |-> Names("raw", NRows(M)),
       features |-> Names("raw", NCols(M))] : M \in Matrices("csr", 1) }
    \cup { [kind |-> k, M |-> None, barcodes |-> None, features |-> None] :
           k \in {"none", "error"} }
    \cup { [kind |-> "malformed", M |-> MalformedMatrix,
            barcodes |-> Names("raw", 2), features |-> Names("raw", 2)] }

VARIABLES
    pc,              \* position in the export
    norm_src,        \* what get_normalized_data reads from the source
    raw_src,         \* what get_raw_data reads from the source
    synced,          \* the result of get_synced_data
    hdf5,            \* the matrix container: group name -> datasets
    zip,             \* the archive entries written so far
    run_info,        \* the run_info.json record
    obs,             \* the metadata table get_metadata returns (the source's own)
    obs0,            \* that table as it was before write_metadata was called
    col_i,           \* the column the second loop of write_metadata is at
    content,         \* write_metadata: the manifest, id -> record
    all_clusters,    \* write_metadata: id -> per-cell array
    graph_based_uid, \* write_metadata: the id of the graph-based column's record
    n_uuid,          \* how many uuids generate_uuid has handed out
    dimred_src,      \* the projections get_dimred returns, in the dict's order
    dimred_i,        \* the projection the loop of write_dimred_to_file is at
    data,            \* write_dimred_to_file: the manifest, id -> record
    default_dimred,  \* write_dimred_to_file: the id of the first projection
    input_format,    \* format_data: the input_format argument
    output_file,     \* the file at output_name: "absent", "open" or "archive"
    tmp_files,       \* the scratch files that exist in the working directory
    sub_src,         \* SubclusterData: the partitions, each a name and cell indexes
    sub_i            \* the partition the loop of write_sub_clusters is at

matrixVars == <<norm_src, raw_src, synced, hdf5, run_info>>
metaVars == <<obs, obs0, col_i, content, all_clusters, graph_based_uid>>
dimredVars == <<dimred_src, dimred_i, data, default_dimred>>
bcsVars == <<input_format, output_file, tmp_files, sub_src, sub_i>>
vars == <<pc, zip, n_uuid, matrixVars, metaVars, dimredVars, bcsVars>>

(* ------------------------- DataObject: matrices ------------------------ *)
\* [exc |-> TRUE] stands for an exception raised by a getter.
get_normalized_data ==
    [exc |-> norm_src.kind = "error",
     value |-> <<norm_src.M, norm_src.barcodes, norm_src.features>>]

get_raw_data ==
    [exc |-> raw_src.kind \in {"error", "malformed"},
     value |-> <<raw_src.M, raw_src.barcodes, raw_src.features>>]

get_n_cells == Len(norm_src.barcodes)

\* Mutant: the shapes are not compared; raw, when present, always replaces
\* the normalized matrix.
sync_data_shape_ignored(norm, raw) ==
    LET norm_M == norm[1]
        raw_M  == raw[1]
    IN  IF raw_M = None
        THEN [norm_M |-> norm_M, raw_M |-> tocsr(norm_M),
              barcodes |-> norm[2], features |-> norm[3], has_raw |-> FALSE]
        ELSE [norm_M |-> tocsc(raw_M), raw_M |-> raw_M,
              barcodes |-> raw[2], features |-> raw[3], has_raw |-> TRUE]

sync_data(norm, raw) ==
    LET norm_M == norm[1]
        raw_M  == raw[1]
    IN  IF raw_M = None
        THEN [norm_M |-> norm_M, raw_M |-> tocsr(norm_M),
              barcodes |-> norm[2], features |-> norm[3], has_raw |-> FALSE]
        ELSE IF raw_M.shape = norm_M.shape
        THEN [norm_M |-> norm_M, raw_M |-> raw_M,
              barcodes |-> norm[2], features |-> norm[3], has_raw |-> TRUE]
        ELSE [norm_M |-> tocsc(raw_M), raw_M |-> raw_M,
              barcodes |-> raw[2], features |-> raw[3], has_raw |-> TRUE]

\* Mutant: the raw read is not guarded, its exception propagates.
get_synced_data_uncaught ==
    LET n == get_normalized_data
        r == get_raw_data
    IN  IF n.exc \/ r.exc THEN [exc |-> TRUE, value |-> None]
        ELSE [exc |-> FALSE, value |-> sync_data(n.value, r.value)]

\* The normalized read is outside the try block: its exception propagates.
\* Any exception of the raw read is caught and the raw side becomes None.
get_synced_data ==
    LET n   == get_normalized_data
        r   == get_raw_data
        raw == IF r.exc THEN <<None, None, None>> ELSE r.value
    IN  IF n.exc THEN [exc |-> TRUE, value |-> None]
        ELSE [exc |-> FALSE, value |-> sync_data(n.value, raw)]

\* The colsum loop of write_matrix_to_hdf5: every row is cut out of the data
\* arrays with the raw matrix's indptr.
ColSums(norm_M, raw_M, n_cells, has_raw) ==
    LET ncsr == tocsr(norm_M)
        l(i) == raw_M.indptr[i]
        r(i) == raw_M.indptr[i + 1]
        base == [lognorm |-> [i \in 1..n_cells |->
                                SumSeq(PySlice(ncsr.data, l(i), r(i)))]]
    IN  IF has_raw
        THEN [lognorm |-> base.lognorm,
              log |-> [i \in 1..n_cells |->
                         ProdSucc(PySlice(raw_M.data, l(i), r(i)))],
              raw |-> [i \in 1..n_cells |->
                         SumSeq(PySlice(raw_M.data, l(i), r(i)))]]
        ELSE base

SparseGroup(M, barcodes, features, shape) ==
    [barcodes |-> barcodes, features |-> features, data |-> M.data,
     indices |-> M.indices, indptr |-> M.indptr, shape |-> shape]

\* Mutant: the countsT group is written whether or not raw is available.
write_matrix_to_hdf5_always_countsT(norm_M, raw_M, barcodes, features, has_raw) ==
    [bioturing |->
        SparseGroup(raw_M, barcodes, features, <<Len(features), Len(barcodes)>>),
     countsT |->
        SparseGroup(tocsc(raw_M), features, barcodes,
                    <<Len(barcodes), Len(features)>>),
     normalizedT |->
        SparseGroup(norm_M, features, barcodes,
                    <<Len(barcodes), Len(features)>>),
     colsum |-> ColSums(norm_M, raw_M, Len(barcodes), has_raw)]

write_matrix_to_hdf5(norm_M, raw_M, barcodes, features, has_raw) ==
    LET always ==
          [bioturing |->
              SparseGroup(raw_M, barcodes, features,
                          <<Len(features), Len(barcodes)>>),
           normalizedT |->
              SparseGroup(norm_M, features, barcodes,
                          <<Len(barcodes), Len(features)>>),
           colsum |-> ColSums(norm_M, raw_M, Len(barcodes), has_raw)]
    IN  IF has_raw
        THEN [bioturing |-> always.bioturing,
              countsT |->
                 SparseGroup(tocsc(raw_M), features, barcodes,
                             <<Len(barcodes), Len(features)>>),
              normalizedT |-> always.normalizedT,
              colsum |-> always.colsum]
        ELSE always

Empty == [x \in {} |-> None]
\* graph_based_uid = None: no uuid yet.
NoUid == "None"

\* The state before anything was read or written.
NoMatrixYet == synced = None /\ hdf5 = Empty /\ run_info = None
NoMetadataYet ==
    /\ col_i = 1
    /\ content = Empty
    /\ all_clusters = Empty
    /\ graph_based_uid = NoUid
NoDimredYet == dimred_i = 1 /\ data = Empty /\ default_dimred = NoUid
NoArchiveYet == output_file = "absent" /\ tmp_files = {} /\ sub_i = 1
\* A ScanpyData object outside format_data: no partitions.
NoBcsYet == input_format = "h5ad" /\ sub_src = <<>> /\ NoArchiveYet

InitMatrix ==
    /\ pc = "start"
    /\ norm_src \in NormalizedSources
    /\ raw_src \in RawSources
    /\ obs = <<>> /\ obs0 = <<>>
    /\ zip = Empty
    /\ n_uuid = 0
    /\ NoMatrixYet
    /\ NoMetadataYet
    /\ dimred_src = <<>>
    /\ NoDimredYet
    /\ NoBcsYet

\* write_matrix, first half: the reconciliation.
GetSyncedData ==
    /\ pc = "start"
    /\ LET res == get_synced_data
       IN  IF res.exc
           THEN pc' = "failed" /\ UNCHANGED synced
           ELSE pc' = "synced" /\ synced' = res.value
    /\ UNCHANGED <<norm_src, raw_src, hdf5, zip, run_info, n_uuid, metaVars, dimredVars, bcsVars>>

\* write_matrix, second half: the container is filled in the scratch file.
WriteMatrixToHdf5 ==
    /\ pc = "synced"
    /\ hdf5' = write_matrix_to_hdf5(synced.norm_M, synced.raw_M,
                                    synced.barcodes, synced.features,
                                    synced.has_raw)
    /\ pc' = "matrix"
    /\ UNCHANGED <<norm_src, raw_src, synced, zip, run_info, n_uuid, metaVars, dimredVars, bcsVars>>

\* write_main_folder_to_file: the container and the two listings.
WriteMainFolderToFile ==
    /\ pc = "matrix"
    /\ zip' = [matrix |-> hdf5, barcodes |-> synced.barcodes,
               genes |-> synced.features]
    /\ pc' = "main"
    /\ UNCHANGED <<norm_src, raw_src, synced, hdf5, run_info, n_uuid, metaVars, dimredVars, bcsVars>>

\* write_bcs_to_file, after write_main_folder returned has_raw.
\* Mutant: the unit does not look at has_raw.
unit_of_always_umi(has_raw) == "umi"

unit_of(has_raw) == IF has_raw THEN "umi" ELSE "lognorm"

write_runinfo(unit) == [n_cell |-> get_n_cells, unit |-> unit]

WriteRuninfo ==
    /\ pc = "main"
    /\ run_info' = write_runinfo(unit_of(synced.has_raw))
    /\ pc' = "done"
    /\ UNCHANGED <<norm_src, raw_src, synced, hdf5, zip, n_uuid, metaVars, dimredVars, bcsVars>>

NextMatrix ==
    \/ GetSyncedData
    \/ WriteMatrixToHdf5
    \/ WriteMainFolderToFile
    \/ WriteRuninfo

Spec == InitMatrix /\ [][NextMatrix]_vars

(* ------------------------ the metadata table --------------------------- *)
\* A column of the table: its name, its dtype ("category", "number" or
\* "object"), the ordered categories of a categorical column, and one value
\* per cell.  NA is a missing value of a categorical or object column, NaN
\* the missing value of a numeric one.
NA == "<NA>"
NaN == -1
Labels == {"A", "B", "Unassigned"}
NumericLabels == {"7"}
ParseNumber(l) == IF l = NA THEN NaN ELSE 7

graph_based == "louvain"
replace_missing == "Unassigned"

\* The uuid4 strings, in the order generate_uuid hands them out.
Uuids == <<"uuid1", "uuid2", "uuid3", "uuid4", "uuid5", "uuid6", "uuid7",
           "uuid8", "uuid9", "uuid10", "uuid11", "uuid12", "uuid13",
           "uuid14", "uuid15", "uuid16">>
generate_uuid(k) == Uuids[k + 1]
generate_history_object(k) ==
    [created_by |-> "bbrowser_format_converter", hash_id |-> generate_uuid(k)]

Range(f) == {f[x] : x \in DOMAIN f}
DistinctSeqs(S, n) ==
    UNION { {q \in [1..k -> S] : \A a, b \in 1..k : a # b => q[a] # q[b]} :
            k \in 0..n }

CategoricalColumn(name, cats, v) ==
    [name |-> name, dtype |-> "category", categories |-> cats, values |-> v]
NumericColumn(name, n) ==
    [name |-> name, dtype |-> "number", categories |-> <<>>,
     values |-> [i \in 1..n |-> i]]
ObjectColumn(name, n) ==
    [name |-> name, dtype |-> "object", categories |-> <<>>,
     values |-> [i \in 1..n |-> IF i = 1 THEN "x" ELSE "y"]]

\* The columns a table may hold beside its main column.
OtherColumns(n) ==
    { NumericColumn("n_genes", n), ObjectColumn("note", n),
      CategoricalColumn("sample", <<"A", "7">>,
                        [i \in 1..n |-> IF i = 1 THEN NA ELSE "A"]),
      CategoricalColumn("n_counts", <<"7">>,
                        [i \in 1..n |-> IF i = 1 THEN NA ELSE "7"]) }

(* ---------------------- DataObject.write_metadata ---------------------- *)
Put(f, k, v) == [x \in DOMAIN f \cup {k} |-> IF x = k THEN v ELSE f[x]]
Remove(f, k) == [x \in DOMAIN f \ {k} |-> f[x]]
IndexOf(q, x) == CHOOSE i \in 1..Len(q) : q[i] = x

\* pandas.to_numeric(column, downcast="float"): raises unless every value
\* that is there parses as a number.
to_numeric(column) ==
    IF column.dtype = "number" THEN [exc |-> FALSE, value |-> column]
    ELSE IF \A i \in 1..Len(column.values) :
               column.values[i] \in NumericLabels \cup {NA}
    THEN [exc |-> FALSE,
          value |-> [name |-> column.name, dtype |-> "number",
                     categories |-> <<>>,
                     values |-> [i \in 1..Len(column.values) |->
                                   ParseNumber(column.values[i])]]]
    ELSE [exc |-> TRUE, value |-> column]

\* The first loop of write_metadata, on one column.
coerce_column(column) ==
    IF column.name = graph_based THEN column
    ELSE LET r == to_numeric(column) IN IF r.exc THEN column ELSE r.value

\* Mutant: the new category is added but the categories are not reordered,
\* so it stays last.
add_category_to_first_appended(column, new_category) ==
    IF column.dtype # "category" THEN [exc |-> TRUE, value |-> None]
    ELSE IF new_category \in Range(column.categories)
    THEN [exc |-> TRUE, value |-> None]
    ELSE [exc |-> FALSE,
          value |-> [column EXCEPT
                        !.categories = Append(column.categories, new_category)]]

\* Mutant: a label that is already a category is not rejected, it is
\* inserted again.
add_category_to_first_unchecked(column, new_category) ==
    IF column.dtype # "category" THEN [exc |-> TRUE, value |-> None]
    ELSE [exc |-> FALSE,
          value |-> [column EXCEPT
                        !.categories = <<new_category>> \o column.categories]]

add_category_to_first(column, new_category) ==
    IF column.dtype # "category" THEN [exc |-> TRUE, value |-> None]
    ELSE IF new_category \in Range(column.categories)
    THEN [exc |-> TRUE, value |-> None]
    ELSE LET added == Append(column.categories, new_category)
             cat   == <<new_category>> \o SubSeq(added, 1, Len(added) - 1)
         IN  [exc |-> FALSE,
              value |-> [column EXCEPT !.categories = cat]]

\* Series.fillna(value, inplace=True) on the column taken out of the table:
\* modelled as pandas 1.x does it, where the table's own column is filled.
fillna(column, value) ==
    [column EXCEPT !.values =
        [i \in 1..Len(column.values) |->
            IF column.values[i] = NA THEN value ELSE column.values[i]]]

\* Mutant: the counts array is sized by the categories the column had before
\* the missing label was added.
encode_category_stale_lengths(column, missing) ==
    LET c1 == IF missing \notin Range(column.categories)
              THEN add_category_to_first(column, missing).value
              ELSE column
        c2 == fillna(c1, missing)
        value_to_index == [y \in Range(c2.categories) |->
                              IndexOf(c2.categories, y) - 1]
        codes == [i \in 1..Len(c2.values) |-> value_to_index[c2.values[i]]]
        lengths == [k \in 1..Len(column.categories) |->
                      Cardinality({i \in 1..Len(codes) : codes[i] = k - 1})]
    IN  [column |-> c2, clusters |-> codes, lengths |-> lengths,
         names |-> c2.categories]

\* The categorical branch of the second loop: the column as it is left in
\* the table, the per-cell codes, the counts and the category names.
encode_category(column, missing) ==
    LET c1 == IF missing \notin Range(column.categories)
              THEN add_category_to_first(column, missing).value
              ELSE column
        c2 == fillna(c1, missing)
        value_to_index == [y \in Range(c2.categories) |->
                              IndexOf(c2.categories, y) - 1]
        codes == [i \in 1..Len(c2.values) |-> value_to_index[c2.values[i]]]
        lengths == [k \in 1..Len(c2.categories) |->
                      Cardinality({i \in 1..Len(codes) : codes[i] = k - 1})]
    IN  [column |-> c2, clusters |-> codes, lengths |-> lengths,
         names |-> c2.categories]

\* The tables of a source of n cells: a main column of any kind, categorical
\* with any categories and values, named like the graph-based clustering or
\* not; alone, or (up to MaxCells cells) before or after one other column.
InitMeta ==
    /\ pc = "meta_start"
    /\ \E n \in 1..MaxMetaCells :
       \E name \in {"louvain", "batch"} :
       \E dtype \in {"category", "number", "object"} :
       \E cats \in IF dtype = "category" THEN DistinctSeqs(Labels, MaxCats)
                   ELSE {<<>>} :
       \E v \in IF dtype = "category" THEN [1..n -> Range(cats) \cup {NA}]
                ELSE {<<>>} :
       \E others \in {<<>>} \cup (IF n <= MaxCells
                                  THEN {<<o>> : o \in OtherColumns(n)}
                                  ELSE {}) :
       \E first \in BOOLEAN :
          LET main == CASE dtype = "category" -> CategoricalColumn(name, cats, v)
                        [] dtype = "number" -> NumericColumn(name, n)
                        [] OTHER -> ObjectColumn(name, n)
          IN  /\ dtype # "category" => name = "louvain"
              /\ others = <<>> => first
              /\ norm_src = [kind |-> "ok",
                             M |-> FromDense(Pattern({}, 0, n, 1), "csc", n, 1),
                             barcodes |-> Names("norm", n),
                             features |-> Names("norm", 1)]
              /\ obs = IF first THEN <<main>> \o others ELSE others \o <<main>>
    /\ obs0 = obs
    /\ raw_src = [kind |-> "none", M |-> None, barcodes |-> None,
                  features |-> None]
    /\ zip = Empty
    /\ n_uuid = 0
    /\ NoMatrixYet
    /\ NoMetadataYet
    /\ dimred_src = <<>>
    /\ NoDimredYet
    /\ NoBcsYet

\* Lines 203-210: every column but the graph-based one is coerced to numeric
\* where that works, in the table itself.
CoerceColumns ==
    /\ pc = "meta_start"
    /\ obs' = [i \in 1..Len(obs) |-> coerce_column(obs[i])]
    /\ pc' = "meta_encode"
    /\ UNCHANGED <<zip, n_uuid, matrixVars, obs0, col_i, content,
                   all_clusters, graph_based_uid, dimredVars, bcsVars>>

\* Lines 217-255: one iteration of the second loop.
EncodeColumn ==
    /\ pc = "meta_encode"
    /\ col_i <= Len(obs)
    /\ LET column == obs[col_i]
           uid    == generate_uuid(n_uuid)
           enc    == encode_category(column, replace_missing)
           record(lengths, names, type) ==
              [id |-> uid, name |-> column.name, clusterLength |-> lengths,
               clusterName |-> names, type |-> type,
               history |-> <<generate_history_object(n_uuid + 1)>>]
       IN  /\ IF column.dtype = "number"
              THEN /\ all_clusters' = Put(all_clusters, uid, column.values)
                   /\ content' = Put(content, uid, record(0, "NaN", "numeric"))
                   /\ n_uuid' = n_uuid + 2
                   /\ UNCHANGED obs
              ELSE IF column.dtype = "category"
              THEN /\ obs' = [obs EXCEPT ![col_i] = enc.column]
                   /\ all_clusters' = Put(all_clusters, uid, enc.clusters)
                   /\ content' = Put(content, uid,
                                     record(enc.lengths, enc.names, "category"))
                   /\ n_uuid' = n_uuid + 2
              ELSE /\ n_uuid' = n_uuid + 1
                   /\ UNCHANGED <<obs, all_clusters, content>>
           /\ graph_based_uid' =
                 IF column.dtype \in {"number", "category"}
                    /\ column.name = graph_based
                 THEN uid ELSE graph_based_uid
    /\ col_i' = col_i + 1
    /\ UNCHANGED <<pc, zip, matrixVars, obs0, dimredVars, bcsVars>>

\* Lines 257-278: the record of the graph-based column moves to the id
\* "graph_based", or a record of one cluster is made up.
\* Mutant: without a graph-based column nothing is made up.
promote_graph_based_no_fake(cont, clusters, gb_uid, history, n_cells) ==
    IF gb_uid # NoUid
    THEN [content |->
             Remove(Put(cont, "graph_based",
                        [cont[gb_uid] EXCEPT
                            !.id = "graph_based",
                            !.name = "Graph based clusters",
                            !.history = <<history>>]),
                    gb_uid),
          all_clusters |-> Put(clusters, "graph_based", clusters[gb_uid])]
    ELSE [content |-> cont, all_clusters |-> clusters]

promote_graph_based(cont, clusters, gb_uid, history, n_cells) ==
    IF gb_uid # NoUid
    THEN [content |->
             Remove(Put(cont, "graph_based",
                        [cont[gb_uid] EXCEPT
                            !.id = "graph_based",
                            !.name = "Graph based clusters",
                            !.history = <<history>>]),
                    gb_uid),
          all_clusters |-> Put(clusters, "graph_based", clusters[gb_uid])]
    ELSE [content |->
             Put(cont, "graph_based",
                 [id |-> "graph_based", name |-> "Graph-based clusters",
                  clusterLength |-> <<0, n_cells>>,
                  clusterName |-> <<"Unassigned", "Cluster 1">>,
                  type |-> "category", history |-> <<history>>]),
          all_clusters |->
             Put(clusters, "graph_based", [i \in 1..n_cells |-> 1])]

PromoteGraphBased ==
    /\ pc = "meta_encode"
    /\ col_i > Len(obs)
    /\ LET history == [generate_history_object(n_uuid) EXCEPT
                          !.hash_id = "graph_based"]
           res == promote_graph_based(content, all_clusters, graph_based_uid,
                                      history, get_n_cells)
       IN  /\ content' = res.content
           /\ all_clusters' = res.all_clusters
    /\ n_uuid' = n_uuid + 1
    /\ pc' = "meta_promoted"
    /\ UNCHANGED <<zip, matrixVars, obs, obs0, col_i, graph_based_uid,
                   dimredVars, bcsVars>>

\* Lines 279-295: metalist.json and one file per record of the manifest.
metadata_files(cont, clusters) ==
    [uid \in DOMAIN cont |->
        [id |-> cont[uid].id, name |-> cont[uid].name,
         clusters |-> clusters[uid],
         clusterName |-> cont[uid].clusterName,
         clusterLength |-> cont[uid].clusterLength,
         history |-> cont[uid].history, type |-> <<cont[uid].type>>]]

WriteMetalist ==
    /\ pc = "meta_promoted"
    /\ zip' = [metalist |-> [content |-> content, version |-> 1],
               files |-> metadata_files(content, all_clusters)]
    /\ pc' = "meta_done"
    /\ UNCHANGED <<n_uuid, matrixVars, metaVars, dimredVars, bcsVars>>

NextMeta ==
    \/ CoerceColumns
    \/ EncodeColumn
    \/ PromoteGraphBased
    \/ WriteMetalist

SpecMeta == InitMeta /\ [][NextMeta]_vars

(* ------------------- DataObject.write_dimred_to_file ------------------- *)
\* A projection is a dense array, one row of coordinates per cell.  The
\* k-th projection of a source has the k-th name; its coordinate of cell i
\* in dimension j is 100 k + 10 i + j, so that all coordinates differ.
DimredNames == <<"X_pca", "X_umap", "X_tsne", "X_draw_graph">>
Projection(k, n, d) ==
    [name |-> DimredNames[k],
     matrix |-> [i \in 1..n |-> [j \in 1..d |-> 100 * k + 10 * i + j]]]

\* matrix.shape of a two-dimensional array.
Shape(matrix) == <<Len(matrix), Len(matrix[1])>>

\* Mutant: the slice is taken but the projection is written whole.
truncate_not_applied(matrix) == matrix

\* Lines 305-307: matrix[:, 0:3] when the array has more than 3 columns.
truncate(matrix) ==
    IF Shape(matrix)[2] > MaxDimredDims
    THEN [i \in 1..Len(matrix) |-> SubSeq(matrix[i], 1, MaxDimredDims)]
    ELSE matrix

\* Lines 308-319: the file of one projection.  float() of a coordinate keeps
\* its value.
coords_of(name, matrix, dimred_history) ==
    LET m == truncate(matrix)
        n_shapes == Shape(m)
    IN  [coords |-> m, name |-> name, id |-> dimred_history.hash_id,
         size |-> n_shapes,
         param |-> [omics |-> "RNA", dims |-> Len(n_shapes)],
         history |-> <<dimred_history>>]

InitDimred ==
    /\ pc = "dimred"
    /\ \E n \in 1..MaxCells :
       \E k \in 0..MaxProj :
       \E dims \in [1..k -> 1..MaxDims] :
          /\ norm_src = [kind |-> "ok",
                         M |-> FromDense(Pattern({}, 0, n, 1), "csc", n, 1),
                         barcodes |-> Names("norm", n),
                         features |-> Names("norm", 1)]
          /\ dimred_src = [q \in 1..k |-> Projection(q, n, dims[q])]
    /\ raw_src = [kind |-> "none", M |-> None, barcodes |-> None,
                  features |-> None]
    /\ obs = <<>> /\ obs0 = <<>>
    /\ zip = Empty
    /\ n_uuid = 0
    /\ NoMatrixYet
    /\ NoMetadataYet
    /\ NoDimredYet
    /\ NoBcsYet

\* Lines 300-301: a source without projections ends the export.
NoDimredFound ==
    /\ pc = "dimred"
    /\ Len(dimred_src) = 0
    /\ pc' = "failed"
    /\ UNCHANGED <<zip, n_uuid, matrixVars, metaVars, dimredVars, bcsVars>>

\* Lines 302-330: one iteration of the loop.
WriteProjection ==
    /\ pc = "dimred"
    /\ dimred_i <= Len(dimred_src)
    /\ LET coords == coords_of(dimred_src[dimred_i].name,
                               dimred_src[dimred_i].matrix,
                               generate_history_object(n_uuid))
       IN  /\ default_dimred' = IF default_dimred = NoUid THEN coords.id
                                ELSE default_dimred
           /\ data' = Put(data, coords.id,
                          [name |-> coords.name, id |-> coords.id,
                           size |-> coords.size, param |-> coords.param,
                           history |-> coords.history])
           /\ zip' = Put(zip, coords.id, coords)
    /\ n_uuid' = n_uuid + 1
    /\ dimred_i' = dimred_i + 1
    /\ UNCHANGED <<pc, matrixVars, metaVars, dimred_src, bcsVars>>

\* Lines 331-340: the manifest of the projections.
WriteDimredMeta ==
    /\ pc = "dimred"
    /\ Len(dimred_src) > 0
    /\ dimred_i > Len(dimred_src)
    /\ zip' = Put(zip, "meta",
                  [data |-> data, version |-> 1, default |-> default_dimred])
    /\ pc' = "dimred_done"
    /\ UNCHANGED <<n_uuid, matrixVars, metaVars, dimredVars, bcsVars>>

NextDimred ==
    \/ NoDimredFound
    \/ WriteProjection
    \/ WriteDimredMeta

SpecDimred == InitDimred /\ [][NextDimred]_vars

(* ----------------------- format_data, write_bcs ----------------------- *)
InputFormats == {"h5ad", "spring", "loom"}

\* Mutant: an input format that is not known is read as an h5ad file.
data_object_h5ad_by_default(fmt) ==
    IF fmt = "spring" THEN "SpringData" ELSE "ScanpyData"

\* format_data, lines 912-917: the class of the data object, or the exception
\* raised for any other input format.
data_object(fmt) ==
    IF fmt = "h5ad" THEN "ScanpyData"
    ELSE IF fmt = "spring" THEN "SpringData"
    ELSE "Exception"

\* "." + str(uuid.uuid4()): the name of a scratch file.
tmp_matrix(k) == generate_uuid(k)

\* write_main_folder_to_file: the entries of one folder of the archive; the
\* container is copied from the scratch file.
write_main_folder_to_file(matrix, barcodes, features) ==
    [matrix |-> matrix, barcodes |-> barcodes, genes |-> features]

\* numpy's reading of an index into an axis of n entries: a negative index
\* counts from the end.
NormIndex(i, n) == IF i < 0 THEN i + n ELSE i
IndexError(ids, n) ==
    \E k \in 1..Len(ids) : NormIndex(ids[k], n) \notin 0..(n - 1)

\* x[ids] of an array.
Take(x, ids) == [k \in 1..Len(ids) |-> x[NormIndex(ids[k], Len(x)) + 1]]

\* M[ids, :] of a sparse matrix: the rows of M at ids, in the format of M.
RowIndex(M, ids) ==
    FromDense(Take(Dense(M), ids), M.fmt, Len(ids), NCols(M))

\* Mutant: the matrices are sliced, the barcodes are not.
get_sub_synced_data_all_barcodes(ids) ==
    LET full == get_synced_data
    IN  IF full.exc THEN [exc |-> TRUE, value |-> None]
        ELSE IF IndexError(ids, NRows(full.value.norm_M))
        THEN [exc |-> TRUE, value |-> None]
        ELSE [exc |-> FALSE,
              value |-> [norm_M |-> RowIndex(full.value.norm_M, ids),
                         raw_M |-> RowIndex(full.value.raw_M, ids),
                         barcodes |-> full.value.barcodes,
                         features |-> full.value.features,
                         has_raw |-> full.value.has_raw]]

\* SubclusterData.get_sub_synced_data: the full reconciliation, read again,
\* cut to the rows of the partition.  An index outside the axis raises.
get_sub_synced_data(ids) ==
    LET full == get_synced_data
    IN  IF full.exc THEN [exc |-> TRUE, value |-> None]
        ELSE IF IndexError(ids, NRows(full.value.norm_M))
        THEN [exc |-> TRUE, value |-> None]
        ELSE [exc |-> FALSE,
              value |-> [norm_M |-> RowIndex(full.value.norm_M, ids),
                         raw_M |-> RowIndex(full.value.raw_M, ids),
                         barcodes |-> Take(full.value.barcodes, ids),
                         features |-> full.value.features,
                         has_raw |-> full.value.has_raw]]

\* SpringData.get_sub_dimred: one projection, "coordinates", of two columns.
get_sub_dimred(n) == [Projection(1, n, 2) EXCEPT !.name = "coordinates"]

\* write_sub_dimred: the file of the projection and the manifest.
write_sub_dimred(n, k) ==
    LET d == get_sub_dimred(n)
        coords == coords_of(d.name, d.matrix, generate_history_object(k))
    IN  [coords |-> coords,
         meta |-> [data |-> [name |-> coords.name, id |-> coords.id,
                             size |-> coords.size, param |-> coords.param,
                             history |-> coords.history],
                   version |-> 1, default |-> coords.id]]

write_cluster_info(sub_name, selected_arr) ==
    [name |-> sub_name, hash |-> sub_name, selectedArr |-> selected_arr,
     path |-> sub_name]

SubNames == <<"sub1", "sub2", "sub3", "sub4">>

RECURSIVE Drop(_, _)
Drop(q, k) == IF k = 0 \/ q = <<>> THEN q ELSE Drop(Tail(q), k - 1)

\* The sources format_data is called on.  An h5ad file: X is sparse, or
\* dense, and then get_normalized_matrix raises (an ndarray has no tocsc);
\* raw is absent, unreadable, or a matrix over the same cells (get_raw_barcodes
\* is get_barcodes) with its own features.  A spring folder: no raw data, and
\* up to MaxSubs partitions, each the one before without its first index.
InitBcs ==
    /\ pc = "format_data"
    /\ input_format \in InputFormats
    /\ \E n \in 1..MaxCells :
       \E S \in { (1..n) \X (1..MaxFeatures), {<<1, 1>>} } :
          /\ \/ norm_src = [kind |-> "ok",
                            M |-> FromDense(Pattern(S, 0, n, MaxFeatures), "csc",
                                            n, MaxFeatures),
                            barcodes |-> Names("norm", n),
                            features |-> Names("norm", MaxFeatures)]
             \/ /\ S = {<<1, 1>>}
                /\ norm_src = [kind |-> "error", M |-> None,
                               barcodes |-> Names("norm", n),
                               features |-> Names("norm", MaxFeatures)]
          /\ \/ raw_src \in { [kind |-> k, M |-> None, barcodes |-> None,
                                features |-> None] : k \in {"none", "error"} }
             \/ \E c \in 1..MaxFeatures :
                   raw_src = [kind |-> "ok",
                              M |-> FromDense(Pattern(S, 1, n, c), "csr", n, c),
                              barcodes |-> Names("norm", n),
                              features |-> Names("raw", c)]
          /\ data_object(input_format) # "ScanpyData" => raw_src.kind = "none"
          /\ obs \in { <<>>,
                       <<CategoricalColumn("louvain", <<"A">>,
                                           [i \in 1..n |-> "A"])>> }
          /\ \E k \in 0..1 : dimred_src = [q \in 1..k |-> Projection(q, n, 2)]
          /\ \E c \in 0..MaxSubs :
             \E len \in (IF c = 0 THEN 1 ELSE c)..MaxIds :
             \E ids \in [1..len -> (0 - 1)..n] :
                /\ c = 0 => ids = [i \in 1..len |-> 0]
                /\ data_object(input_format) # "SpringData" => c = 0
                /\ sub_src = [q \in 1..c |->
                                [name |-> SubNames[q], ids |-> Drop(ids, q - 1)]]
    /\ obs0 = obs
    /\ zip = Empty
    /\ n_uuid = 0
    /\ NoMatrixYet
    /\ NoMetadataYet
    /\ NoDimredYet
    /\ NoArchiveYet

\* format_data up to the opening of the archive in write_bcs: a format that
\* is not known raises before anything is created.
FormatData ==
    /\ pc = "format_data"
    /\ IF data_object(input_format) = "Exception"
       THEN pc' = "raised" /\ UNCHANGED output_file
       ELSE pc' = "meta_start" /\ output_file' = "open"
    /\ n_uuid' = n_uuid + 1
    /\ UNCHANGED <<zip, matrixVars, metaVars, dimredVars, input_format,
                   tmp_files, sub_src, sub_i>>

\* write_dimred: a source without projections raises (lines 300-301); the
\* exception leaves the with block of write_bcs, which closes the archive.
WriteDimred ==
    /\ pc = "meta_done"
    /\ IF Len(dimred_src) = 0
       THEN pc' = "raised" /\ output_file' = "archive"
       ELSE pc' = "dimred" /\ UNCHANGED output_file
    /\ UNCHANGED <<zip, n_uuid, matrixVars, metaVars, dimredVars, input_format,
                   tmp_files, sub_src, sub_i>>

\* write_main_folder: the scratch file is created, filled by write_matrix,
\* copied into the archive and removed.  An exception of write_matrix leaves
\* the function before os.remove, and leaves write_bcs through its with
\* block.
WriteMainFolder ==
    /\ pc = "dimred_done"
    /\ LET tmp == tmp_matrix(n_uuid)
           res == get_synced_data
       IN  IF res.exc
           THEN /\ tmp_files' = tmp_files \cup {tmp}
                /\ output_file' = "archive"
                /\ pc' = "raised"
                /\ UNCHANGED <<synced, hdf5, zip>>
           ELSE /\ synced' = res.value
                /\ hdf5' = write_matrix_to_hdf5(synced'.norm_M, synced'.raw_M,
                                                synced'.barcodes,
                                                synced'.features,
                                                synced'.has_raw)
                /\ zip' = Put(zip, "main",
                              write_main_folder_to_file(hdf5', synced'.barcodes,
                                                        synced'.features))
                /\ tmp_files' = (tmp_files \cup {tmp}) \ {tmp}
                /\ pc' = "main_written"
                /\ UNCHANGED output_file
    /\ n_uuid' = n_uuid + 1
    /\ UNCHANGED <<norm_src, raw_src, run_info, metaVars, dimredVars,
                   input_format, sub_src, sub_i>>

\* The end of DataObject.write_bcs_to_file: run_info.json.  A ScanpyData
\* object is done, and write_bcs closes the archive and returns.
WriteBcsRuninfo ==
    /\ pc = "main_written"
    /\ run_info' = write_runinfo(unit_of(synced.has_raw))
    /\ zip' = Put(zip, "run_info", run_info')
    /\ n_uuid' = n_uuid + 1
    /\ IF data_object(input_format) = "SpringData"
       THEN pc' = "sub" /\ UNCHANGED output_file
       ELSE pc' = "returned" /\ output_file' = "archive"
    /\ UNCHANGED <<norm_src, raw_src, synced, hdf5, metaVars, dimredVars,
                   input_format, tmp_files, sub_src, sub_i>>

\* One iteration of the loop of write_sub_clusters: the projection of the
\* partition, its folder (write_sub_folder, with a scratch file of its own)
\* and cluster_info.json.
WriteSubCluster ==
    /\ pc = "sub"
    /\ sub_i <= Len(sub_src)
    /\ LET sub    == sub_src[sub_i]
           dimred == write_sub_dimred(get_n_cells, n_uuid)
           tmp    == tmp_matrix(n_uuid + 1)
           res    == get_sub_synced_data(sub.ids)
       IN  IF res.exc
           THEN /\ zip' = Put(zip, sub.name, [dimred |-> dimred])
                /\ tmp_files' = tmp_files \cup {tmp}
                /\ output_file' = "archive"
                /\ pc' = "raised"
                /\ UNCHANGED <<synced, hdf5, sub_i>>
           ELSE /\ synced' = res.value
                /\ hdf5' = write_matrix_to_hdf5(synced'.norm_M, synced'.raw_M,
                                                synced'.barcodes,
                                                synced'.features,
                                                synced'.has_raw)
                /\ zip' = Put(zip, sub.name,
                              [dimred |-> dimred,
                               folder |-> write_main_folder_to_file(
                                             hdf5', synced'.barcodes,
                                             synced'.features),
                               cluster_info |->
                                  write_cluster_info(sub.name, sub.ids)])
                /\ tmp_files' = (tmp_files \cup {tmp}) \ {tmp}
                /\ sub_i' = sub_i + 1
                /\ UNCHANGED <<pc, output_file>>
    /\ n_uuid' = n_uuid + 2
    /\ UNCHANGED <<norm_src, raw_src, run_info, metaVars, dimredVars,
                   input_format, sub_src>>

\* The end of write_sub_clusters: graph_cluster.json; write_bcs closes the
\* archive and returns.
WriteGraphCluster ==
    /\ pc = "sub"
    /\ sub_i > Len(sub_src)
    /\ zip' = Put(zip, "graph_cluster",
                  [main |-> [q \in 1..Len(sub_src) |-> sub_src[q].name]])
    /\ output_file' = "archive"
    /\ pc' = "returned"
    /\ UNCHANGED <<n_uuid, matrixVars, metaVars, dimredVars, input_format,
                   tmp_files, sub_src, sub_i>>

NextBcs ==
    \/ FormatData
    \/ CoerceColumns
    \/ EncodeColumn
    \/ PromoteGraphBased
    \/ WriteMetalist
    \/ WriteDimred
    \/ WriteProjection
    \/ WriteDimredMeta
    \/ WriteMainFolder
    \/ WriteBcsRuninfo
    \/ WriteSubCluster
    \/ WriteGraphCluster

SpecBcs == InitBcs /\ [][NextBcs]_vars

(* ===================== claims: matrix reconciliation =================== *)
RECURSIVE Pow(_, _)
Pow(b, n) == IF n = 0 THEN 1 ELSE b * Pow(b, n - 1)

RowSum(M, i) == SumSeq([j \in 1..NCols(M) |-> At(M, i, j)])

\* The normalization transform of the specification sends a raw count v of a
\* row of sum S to ln(v / S * 10000 + 1), and leaves the places that store
\* nothing alone.  Whether an integer x can be that value is decided with
\* 2 < e < 3: x = ln(10000 v / S + 1) needs 2^x < (10000 v + S) / S < 3^x.
MayBeNormalizedFrom(x, v, S) ==
    IF v = 0 THEN x = 0
    ELSE /\ x > 0
         /\ Pow(2, x) * S < 10000 * v + S
         /\ 10000 * v + S < Pow(3, x) * S

Synced == pc \in {"synced", "matrix", "main", "done"}
RawPresent == raw_src.kind = "ok"
ShapesEqual == RawPresent /\ raw_src.M.shape = norm_src.M.shape
ShapesDiffer == RawPresent /\ raw_src.M.shape # norm_src.M.shape

\* C1: when raw is present and its shape differs from the normalized
\* matrix's, the returned normalized matrix is the normalization transform of
\* the raw matrix (every entry ln(v / rowsum * 10000 + 1)), barcodes and
\* features are those of the raw side and has_raw is true.
C1_MismatchRecomputesNormalized ==
    (Synced /\ ShapesDiffer) =>
        /\ synced.has_raw
        /\ synced.barcodes = raw_src.barcodes
        /\ synced.features = raw_src.features
        /\ synced.norm_M.shape = raw_src.M.shape
        /\ \A i \in 1..NRows(raw_src.M) : \A j \in 1..NCols(raw_src.M) :
              MayBeNormalizedFrom(At(synced.norm_M, i, j), At(raw_src.M, i, j),
                                  RowSum(raw_src.M, i))

\* C2: when raw is present and has the shape of the normalized matrix,
\* sync_data returns both matrices exactly as given, the barcodes and
\* features of the normalized side, and has_raw = true.
C2_EqualShapesKeptAsGiven ==
    (Synced /\ ShapesEqual) =>
        /\ synced.norm_M = norm_src.M
        /\ synced.raw_M = raw_src.M
        /\ synced.barcodes = norm_src.barcodes
        /\ synced.features = norm_src.features
        /\ synced.has_raw

C2_Witness ==
    /\ pc = "synced"
    /\ ShapesEqual
    /\ norm_src.M.shape = <<2, 2>>
    /\ Len(norm_src.M.data) = 2
    /\ Len(raw_src.M.data) = 1
    /\ synced.has_raw

\* C3: when the source supplies no raw data (the getter returns nothing or
\* raises), get_synced_data does not abort and returns has_raw = false, a
\* row-compressed raw matrix with the entries of the normalized matrix, and
\* the barcodes and features of the normalized side.
C3_RawAbsentFallsBack ==
    (pc # "start" /\ norm_src.kind = "ok" /\ ~RawPresent) =>
        /\ pc # "failed"
        /\ ~synced.has_raw
        /\ synced.raw_M.fmt = "csr"
        /\ synced.raw_M.shape = norm_src.M.shape
        /\ Dense(synced.raw_M) = Dense(norm_src.M)
        /\ synced.barcodes = norm_src.barcodes
        /\ synced.features = norm_src.features

C3_Witness ==
    /\ pc = "synced"
    /\ raw_src.kind = "error"
    /\ norm_src.kind = "ok"
    /\ Len(norm_src.M.data) = 2
    /\ synced.raw_M.indices # norm_src.M.indices
    /\ ~synced.has_raw

\* C8: the unit of run_info is "umi" exactly when the reconciliation reported
\* has_raw = true and "lognorm" otherwise; a source without raw data always
\* gives "lognorm".
C8_UnitFollowsHasRaw ==
    pc = "done" =>
        /\ run_info.unit = (IF synced.has_raw THEN "umi" ELSE "lognorm")
        /\ (~RawPresent => run_info.unit = "lognorm")
        /\ (RawPresent => run_info.unit = "umi")

C8_Witness ==
    /\ pc = "done"
    /\ raw_src.kind = "none"
    /\ run_info.unit = "lognorm"

\* C9: in the matrix container the countsT group and the raw and log colsum
\* statistics are present exactly when has_raw is true; the bioturing group,
\* the normalizedT group and the lognorm statistic are always present.
C9_RawGroupsIffHasRaw ==
    pc \in {"matrix", "main", "done"} =>
        /\ ("countsT" \in DOMAIN hdf5) <=> synced.has_raw
        /\ ("raw" \in DOMAIN hdf5.colsum) <=> synced.has_raw
        /\ ("log" \in DOMAIN hdf5.colsum) <=> synced.has_raw
        /\ {"bioturing", "normalizedT", "colsum"} \subseteq DOMAIN hdf5
        /\ "lognorm" \in DOMAIN hdf5.colsum

C9_Witness ==
    /\ pc = "matrix"
    /\ ~synced.has_raw
    /\ "countsT" \notin DOMAIN hdf5
    /\ DOMAIN hdf5.colsum = {"lognorm"}

(* ========================= claims: metadata ============================ *)
\* The records of the manifest that stem from column j of the table.
RecordsOf(j) ==
    {uid \in DOMAIN content :
        \/ content[uid].name = obs0[j].name
        \/ /\ uid = "graph_based"
           /\ obs0[j].name = graph_based
           /\ graph_based_uid # NoUid}

Histogram(codes, n) ==
    [k \in 1..n |-> Cardinality({i \in 1..Len(codes) : codes[i] = k - 1})]

\* C4: for every categorical record of the manifest, clusterLength has one
\* entry per clusterName entry, its entries sum to the number of cells, and
\* every per-cell code is an index into the category list.
C4_CategoricalRecordWellFormed ==
    \A uid \in DOMAIN content :
        content[uid].type = "category" =>
            /\ Len(content[uid].clusterLength) = Len(content[uid].clusterName)
            /\ SumSeq(content[uid].clusterLength) = get_n_cells
            /\ Len(all_clusters[uid]) = get_n_cells
            /\ \A i \in 1..Len(all_clusters[uid]) :
                  all_clusters[uid][i] \in 0..(Len(content[uid].clusterName) - 1)

C4_Witness ==
    /\ pc = "meta_done"
    /\ Len(obs0) = 1
    /\ obs0[1].name = "batch"
    /\ obs0[1].categories = <<"B", "A">>
    /\ obs0[1].values = <<NA, "A", NA>>
    /\ \E uid \in DOMAIN content :
          /\ content[uid].name = "batch"
          /\ content[uid].clusterLength = <<2, 0, 1>>

\* C5: a categorical column that does not contain the missing label is
\* encoded with the missing label first and its own categories after it in
\* their order; a missing cell gets code 0, any other cell the position of
\* its value in that list; the counts are the histogram of the codes.
C5_MissingLabelInsertedFirst ==
    \A j \in 1..Len(obs0) : \A uid \in RecordsOf(j) :
        (/\ content[uid].type = "category"
         /\ replace_missing \notin Range(obs0[j].categories)) =>
            LET cats  == obs0[j].categories
                names == <<replace_missing>> \o cats
                codes == all_clusters[uid]
            IN  /\ content[uid].clusterName = names
                /\ Len(codes) = Len(obs0[j].values)
                /\ \A i \in 1..Len(codes) :
                      codes[i] = IF obs0[j].values[i] = NA THEN 0
                                 ELSE IndexOf(cats, obs0[j].values[i])
                /\ content[uid].clusterLength = Histogram(codes, Len(names))

C5_Witness ==
    /\ pc = "meta_done"
    /\ Len(obs0) = 1
    /\ obs0[1].dtype = "category"
    /\ obs0[1].categories = <<"A", "B">>
    /\ obs0[1].values = <<"A", "B", NA, "A">>
    /\ \E uid \in DOMAIN zip.files :
          /\ zip.files[uid].clusterName = <<"Unassigned", "A", "B">>
          /\ zip.files[uid].clusters = <<1, 2, 0, 1>>
          /\ zip.files[uid].clusterLength = <<1, 2, 1>>

HasGraphBasedColumn == \E j \in 1..Len(obs0) : obs0[j].name = graph_based

\* C6: when no column is named like the graph-based clustering, the manifest
\* written holds a record "graph_based" with clusterLength = [0, n_cells] and
\* clusterName = ["Unassigned", "Cluster 1"], and its file assigns every cell
\* the code 1.
C6_FakeGraphBasedRecord ==
    (pc = "meta_done" /\ ~HasGraphBasedColumn) =>
        /\ "graph_based" \in DOMAIN zip.metalist.content
        /\ "graph_based" \in DOMAIN zip.files
        /\ zip.metalist.content["graph_based"].clusterLength = <<0, get_n_cells>>
        /\ zip.metalist.content["graph_based"].clusterName =
              <<"Unassigned", "Cluster 1">>
        /\ zip.files["graph_based"].clusterLength = <<0, get_n_cells>>
        /\ zip.files["graph_based"].clusters = [i \in 1..get_n_cells |-> 1]

C6_Witness ==
    /\ pc = "meta_done"
    /\ ~HasGraphBasedColumn
    /\ Len(obs0) = 2
    /\ get_n_cells = 2
    /\ zip.files["graph_based"].clusters = <<1, 1>>

\* C7: when a column is named like the graph-based clustering, the manifest
\* written holds a record "graph_based" labelled "Graph based clusters" that
\* carries that column's encoding under a new provenance stamp, and holds no
\* record under the id generated for the column.
C7_GraphBasedColumnPromoted ==
    pc = "meta_done" =>
        \A j \in 1..Len(obs0) :
            obs0[j].name = graph_based =>
                LET rec  == zip.metalist.content["graph_based"]
                    file == zip.files["graph_based"]
                    col  == obs0[j]
                    names == IF replace_missing \in Range(col.categories)
                             THEN col.categories
                             ELSE <<replace_missing>> \o col.categories
                IN  /\ rec.name = "Graph based clusters"
                    /\ rec.id = "graph_based"
                    /\ rec.history[1].hash_id = "graph_based"
                    /\ graph_based_uid # NoUid
                    /\ graph_based_uid \notin DOMAIN zip.metalist.content
                    /\ graph_based_uid \notin DOMAIN zip.files
                    /\ col.dtype = "number" => file.clusters = col.values
                    /\ col.dtype = "category" =>
                          /\ rec.clusterName = names
                          /\ file.clusters =
                                [i \in 1..Len(col.values) |->
                                    IndexOf(names,
                                            IF col.values[i] = NA
                                            THEN replace_missing
                                            ELSE col.values[i]) - 1]
                          /\ rec.clusterLength =
                                Histogram(file.clusters, Len(names))

(* ======================== claims: projections ========================== *)
Min(a, b) == IF a < b THEN a ELSE b

\* The files written for projection k of the source.
FilesOf(k) ==
    {id \in DOMAIN zip : id # "meta" /\ zip[id].name = dimred_src[k].name}

\* C10: every projection is written with at most 3 coordinate columns: its
\* first 3 columns in their order when the source has more, all its columns
\* otherwise; the number of rows is that of the source.
C10_ProjectionsTruncatedToThree ==
    pc \in {"dimred", "dimred_done"} =>
        \A k \in 1..(dimred_i - 1) :
            LET src == dimred_src[k].matrix
                d   == Min(Len(src[1]), 3)
            IN  /\ FilesOf(k) # {}
                /\ \A id \in FilesOf(k) :
                      /\ Len(zip[id].coords) = Len(src)
                      /\ zip[id].size = <<Len(src), d>>
                      /\ \A i \in 1..Len(src) :
                            /\ Len(zip[id].coords[i]) = d
                            /\ Len(zip[id].coords[i]) <= 3
                            /\ \A j \in 1..d :
                                  zip[id].coords[i][j] = src[i][j]

C10_Witness ==
    /\ pc = "dimred_done"
    /\ Len(dimred_src) = 2
    /\ Len(dimred_src[1].matrix) = 2
    /\ Len(dimred_src[1].matrix[1]) = 5
    /\ Len(dimred_src[2].matrix[1]) = 2
    /\ \E id \in FilesOf(1) : zip[id].coords = <<<<111, 112, 113>>, <<121, 122, 123>>>>
    /\ \E id \in FilesOf(2) : zip[id].coords = <<<<211, 212>>, <<221, 222>>>>

(* ================== claims: format_data and the archive ================ *)
\* C11: format_data called with an input format other than "h5ad" or
\* "spring" raises, and leaves nothing behind: no file exists at the output
\* path, nothing was written to an archive, and no scratch file exists.
C11_UnknownFormatProducesNothing ==
    input_format \notin {"h5ad", "spring"} =>
        /\ pc \in {"format_data", "raised"}
        /\ output_file = "absent"
        /\ zip = Empty
        /\ tmp_files = {}

C11_Witness ==
    /\ pc = "raised"
    /\ input_format = "loom"
    /\ norm_src.kind = "ok"
    /\ Len(dimred_src) = 1
    /\ Len(obs) = 1
    /\ output_file = "absent"

\* The partitions whose folder has been written.
Exported(q) == q < sub_i /\ pc \in {"sub", "returned", "raised"}
ValidIndexes(ids, n) == \A k \in 1..Len(ids) : ids[k] \in 0..(n - 1)

\* C12: for every partition given by indexes into the full dataset, the
\* exported barcode list has one entry per index, its k-th entry being the
\* full barcode list's entry at the k-th index; the partition's two matrices
\* have as many rows as that list, row k being the full matrix's row at the
\* k-th index, and the feature list is the full one.
C12_PartitionSlicedByIndexes ==
    \A q \in 1..Len(sub_src) :
        (Exported(q) /\ ValidIndexes(sub_src[q].ids, get_n_cells)) =>
            LET ids    == sub_src[q].ids
                full   == get_synced_data.value
                folder == zip[sub_src[q].name].folder
            IN  /\ Len(folder.barcodes) = Len(ids)
                /\ \A k \in 1..Len(ids) :
                      folder.barcodes[k] = full.barcodes[ids[k] + 1]
                /\ folder.genes = full.features
                /\ Len(folder.matrix.bioturing.indptr) = Len(ids) + 1
                /\ (q = sub_i - 1 /\ pc # "raised") =>
                      /\ synced.barcodes = folder.barcodes
                      /\ NRows(synced.norm_M) = Len(ids)
                      /\ NRows(synced.raw_M) = Len(ids)
                      /\ NCols(synced.norm_M) = Len(full.features)
                      /\ NCols(synced.raw_M) = Len(full.features)
                      /\ \A k \in 1..Len(ids) :
                            /\ Dense(synced.norm_M)[k] =
                                  Dense(full.norm_M)[ids[k] + 1]
                            /\ Dense(synced.raw_M)[k] =
                                  Dense(full.raw_M)[ids[k] + 1]

C12_Witness ==
    /\ pc = "returned"
    /\ get_n_cells = 2
    /\ Len(sub_src) = 2
    /\ sub_src[1].ids = <<1, 0>>
    /\ zip["sub1"].folder.barcodes = <<<<"norm", 2>>, <<"norm", 1>>>>
    /\ zip["sub2"].folder.barcodes = <<<<"norm", 1>>>>
    /\ Len(norm_src.M.data) = 4
    /\ Dense(synced.norm_M) = <<Dense(norm_src.M)[1]>>

\* C13: whenever format_data ends, by returning or by raising, no scratch
\* file of a matrix container exists any more.
C13_ScratchFilesReleased ==
    pc \in {"raised", "returned"} => tmp_files = {}

\* C14: when the conversion raises after the archive was opened, no archive
\* is left at the output path.
C14_NoPartialArchiveLeft ==
    pc = "raised" => output_file # "archive"

C19_TableNotMutated ==
    pc = "meta_done" => obs = obs0

(* ===================== claims: matrices, second part =================== *)
\* C16: a raw matrix that is malformed aborts get_synced_data with an error;
\* only raw data that is absent is replaced by the normalized matrix.
C16_MalformedRawAborts ==
    (pc # "start" /\ norm_src.kind = "ok") =>
        /\ raw_src.kind = "malformed" => pc = "failed"
        /\ raw_src.kind = "none" => (pc # "failed" /\ ~synced.has_raw)

\* C17: for every cell i the lognorm statistic is the sum of row i of the
\* normalized matrix, and with has_raw the raw statistic is the sum of row i
\* of the raw matrix.
C17_ColsumsAreRowSums ==
    pc \in {"matrix", "main", "done"} =>
        \A i \in 1..Len(synced.barcodes) :
            /\ hdf5.colsum.lognorm[i] = RowSum(synced.norm_M, i)
            /\ synced.has_raw => hdf5.colsum.raw[i] = RowSum(synced.raw_M, i)

\* C18: n_cell of run_info is the number of cells exported: the number of
\* entries of main/barcodes.tsv and of rows of the written matrices.
C18_NCellIsExportedCells ==
    pc = "done" =>
        /\ run_info.n_cell = Len(zip.barcodes)
        /\ run_info.n_cell = NRows(synced.raw_M)
        /\ run_info.n_cell = NRows(synced.norm_M)
====
